---------------------------- MODULE Spec2Model ----------------------------
(***************************************************************************)
(* Model of the asynchronous CSV ingestion pipeline of myceleryapp:        *)
(*   views.upload_students_csv  (Submit: save the upload, enqueue a task)  *)
(*   views.get_task_status      (Status: read the task's state)            *)
(*   tasks.process_students_csv (worker: one get_or_create of a User and   *)
(*                               one of a Student per CSV row)             *)
(*   models.Student             (the Student table and its constraints)    *)
(* The worker is modelled step by step (one step per file read or database *)
(* statement) so that several workers interleave as they do on a shared    *)
(* database.                                                               *)
(***************************************************************************)
EXTENDS Integers, Sequences, FiniteSets, TLC

(*--------------------------- bounds of the model -------------------------*)
MaxJobs == 2
MaxRows == 2
MaxCrashes == 1
ShortRows == 1

(*------------------------------ input values -----------------------------*)
\* Python's None (also SQL NULL once handed to the ORM).
None == "<None>"

\* The header row the task expects, and the data lines the inputs are built from.
HDR == <<"reg_no", "first_name", "last_name", "email", "department", "level">>
L1 == <<"S001", "Ada", "Lovelace", "ada@x.com", "CS", "300">>
L1x == <<"S001", "Ada", "L", "", "CS", "300">>
LS == <<"S002", "Bob", "Ray", "bob@x.com">>
\* A line holding bytes that are not valid UTF-8.
BadLine == <<"<invalid utf-8>">>

\* Complete lines whose reg_no is the empty string.
LB == <<"", "Eve", "Stone", "eve@x.com", "EE", "100">>
LBx == <<"", "Eva", "S", "", "EE", "200">>

DataLines == {L1, L1x, LS, BadLine}

RECURSIVE SeqsUpTo(_, _)
SeqsUpTo(S, n) ==
    IF n = 0 THEN {<<>>}
    ELSE LET shorter == SeqsUpTo(S, n - 1)
         IN  shorter \cup {Append(s, x) : s \in {t \in shorter : Len(t) = n - 1}, x \in S}

\* Files without a header row: the first line is a data line.
HeaderlessFiles == {<<L1>>, <<L1, L1x>>}

\* An uploaded file is a sequence of lines; each line is its sequence of fields.
FileSet ==
    {<<>>} \cup HeaderlessFiles \cup {<<HDR>> \o b : b \in SeqsUpTo(DataLines, MaxRows)}

\* Files with the expected header whose rows are complete, some with a
\* blank reg_no.
KeyFiles == {<<HDR>> \o b : b \in SeqsUpTo({L1, LB, LBx}, MaxRows)}

\* The files of at most ShortRows lines after the first.
ShortFiles == {f \in FileSet : Len(f) <= ShortRows + 1}

FileNames == {"a.csv", "b.csv"}

Terminal == {"SUCCESS", "FAILURE"}

VARIABLES
    media,      \* MEDIA_ROOT: file name -> content, for the names written so far
    jobs,       \* the tasks sent so far: task id -> [path, submitted]
    queue,      \* task ids whose message waits in the broker
    result,     \* the result backend: task id -> state, for the ids it knows
    worker,     \* per task id, the position of the worker running it
    users,      \* the User table, a sequence of rows (id = index)
    students,   \* the Student table, a sequence of rows (id = index)
    response,   \* the last response of upload_students_csv
    hist,       \* per task id: what its runs did (history, read by no action)
    finished,   \* task ids in the order their runs ended (history)
    crashes     \* number of worker crashes so far

vars == <<media, jobs, queue, result, worker, users, students, response,
          hist, finished, crashes>>

JobIds == 1..Len(jobs)

(*------------------------------ the parser -------------------------------*)
\* open(file_path, "r", encoding="utf-8") reads the file a buffer at a time
\* and decodes each buffer when it is read; ChunkLines lines fill one buffer.
ChunkLines == 2

Min(a, b) == IF a <= b THEN a ELSE b

\* file.readline(): the next line from the buffer, filling the buffer from
\* the file as it is now when the buffer is empty.
ReadLine(buf, pos, content) ==
    IF buf # <<>>
    THEN [kind |-> "line", line |-> Head(buf), buf |-> Tail(buf), pos |-> pos]
    ELSE LET chunk == SubSeq(content, pos + 1, Min(pos + ChunkLines, Len(content)))
         IN  IF chunk = <<>>
             THEN [kind |-> "eof", line |-> <<>>, buf |-> <<>>, pos |-> pos]
             ELSE IF \E i \in 1..Len(chunk) : chunk[i] = BadLine
             THEN [kind |-> "UnicodeDecodeError", line |-> <<>>, buf |-> <<>>, pos |-> pos]
             ELSE [kind |-> "line", line |-> Head(chunk), buf |-> Tail(chunk),
                   pos |-> pos + Len(chunk)]

\* csv.DictReader.__next__: the first call reads the first line as the field
\* names; every call reads one more line as the row.
NextRow(fieldnames, buf, pos, content) ==
    LET h == IF fieldnames = <<>>
             THEN ReadLine(buf, pos, content)
             ELSE [kind |-> "line", line |-> fieldnames, buf |-> buf, pos |-> pos]
    IN  IF h.kind # "line"
        THEN [kind |-> h.kind, fieldnames |-> <<>>, line |-> <<>>, buf |-> h.buf, pos |-> h.pos]
        ELSE LET r == ReadLine(h.buf, h.pos, content)
             IN  [kind |-> r.kind, fieldnames |-> h.line, line |-> r.line,
                  buf |-> r.buf, pos |-> r.pos]

\* row.get(key, default) on the dict DictReader builds: the field under the
\* last column named key; None (restval) when the line is shorter than the
\* header; default when no column has that name.
RowGet(fieldnames, line, key, default) ==
    LET cols == {i \in 1..Len(fieldnames) : fieldnames[i] = key}
    IN  IF cols = {} THEN default
        ELSE LET c == CHOOSE i \in cols : \A k \in cols : k <= i
             IN  IF c <= Len(line) THEN line[c] ELSE None


(*------------------------------ the database -----------------------------*)
\* User.username is unique (django.contrib.auth's User, the model
\* get_user_model() returns).
UsernameUnique(tbl, username) == \A i \in 1..Len(tbl) : tbl[i].username # username

\* Student.reg_no is declared unique=True.
RegNoUnique(tbl, reg_no) == \A i \in 1..Len(tbl) : tbl[i].reg_no # reg_no

\* Student.user is a OneToOneField: at most one Student per User (0 is NULL).
UserLinkUnique(tbl, user) == user = 0 \/ \A i \in 1..Len(tbl) : tbl[i].user # user

\* INSERT into the User table: every column is NOT NULL, username is unique.
\* FALSE stands for the IntegrityError the database raises.
UserInsertOk(tbl, row) ==
    /\ row.username # None /\ row.first_name # None
    /\ row.last_name # None /\ row.email # None
    /\ UsernameUnique(tbl, row.username)

\* Mutant of StudentInsertOk: the table was created without its unique
\* indexes (reg_no not unique, user a plain foreign key).
StudentInsertNotNullOnly(tbl, row) ==
    /\ row.reg_no # None /\ row.first_name # None /\ row.last_name # None
    /\ row.department # None /\ row.level # None

\* INSERT into the Student table: email and user are nullable, the other
\* columns are NOT NULL; reg_no and user are unique.
StudentInsertOk(tbl, row) ==
    /\ row.reg_no # None /\ row.first_name # None /\ row.last_name # None
    /\ row.department # None /\ row.level # None
    /\ RegNoUnique(tbl, row.reg_no)
    /\ UserLinkUnique(tbl, row.user)

\* Mutant of UserMatches: the lookup treats the empty string as it treats
\* None, and matches no row.
UserMatchesBlankAsNull(tbl, key) ==
    IF key = None \/ key = "" THEN {} ELSE {i \in 1..Len(tbl) : tbl[i].username = key}

\* QuerySet.get(username=key): the ids of the matching rows; a None key is
\* the lookup IS NULL, which no row of a NOT NULL column matches.
UserMatches(tbl, key) ==
    IF key = None THEN {} ELSE {i \in 1..Len(tbl) : tbl[i].username = key}

\* QuerySet.get(reg_no=key).
StudentMatches(tbl, key) ==
    IF key = None THEN {} ELSE {i \in 1..Len(tbl) : tbl[i].reg_no = key}

\* auto_now_add: the time of the INSERT, as a logical clock that every
\* INSERT advances.
Now == Len(users) + Len(students)

(*--------------------------- the row of a worker -------------------------*)
\* The number of lines of its file the reader of worker w has handed out
\* (the line of the field names included): the lines read into buffers less
\* the lines still in the buffer.
LinesRead(w) == w.pos - Len(w.buf)

RegNo(w) == RowGet(w.fieldnames, w.line, "reg_no", None)
FirstName(w) == RowGet(w.fieldnames, w.line, "first_name", None)
LastName(w) == RowGet(w.fieldnames, w.line, "last_name", None)
Email(w) == RowGet(w.fieldnames, w.line, "email", None)
Department(w) == RowGet(w.fieldnames, w.line, "department", "")
Level(w) == RowGet(w.fieldnames, w.line, "level", "")

\* The User row get_or_create builds from the lookup and the defaults.
UserRow(w) ==
    [username |-> RegNo(w), first_name |-> FirstName(w),
     last_name |-> LastName(w), email |-> Email(w)]

\* Mutant of StudentRow: the Student is linked to the User created last,
\* not to the User the row's get_or_create returned.
StudentRowLatestUser(w) ==
    [user |-> Len(users), reg_no |-> RegNo(w), first_name |-> FirstName(w),
     last_name |-> LastName(w), email |-> Email(w),
     department |-> Department(w), level |-> Level(w), created_at |-> Now]

\* The Student row get_or_create builds from the lookup and the defaults.
StudentRow(w) ==
    [user |-> w.user, reg_no |-> RegNo(w), first_name |-> FirstName(w),
     last_name |-> LastName(w), email |-> Email(w),
     department |-> Department(w), level |-> Level(w), created_at |-> Now]

(*------------------------------ initial state ----------------------------*)
IdleWorker ==
    [pc |-> "idle", pos |-> 0, buf |-> <<>>, fieldnames |-> <<>>, line |-> <<>>, user |-> 0]

\* No task is handed more rows than this: MaxRows rows in each of its runs.
RowsCap == MaxRows * (MaxCrashes + 1)

NoHist == [attempts |-> 0, rows |-> 0, created |-> 0, reason |-> "", end |-> <<>>]

Init ==
    /\ media = <<>>
    /\ jobs = <<>>
    /\ queue = {}
    /\ result = <<>>
    /\ worker = <<>>
    /\ users = <<>>
    /\ students = <<>>
    /\ response = [code |-> 0, task_id |-> 0, status |-> "", error |-> ""]
    /\ hist = <<>>
    /\ finished = <<>>
    /\ crashes = 0

(*--------------------------------- views ---------------------------------*)
\* Mutant of delay: the task is recorded as STARTED when it is sent.
delay_started(path, f) ==
    LET id == Len(jobs) + 1
    IN  /\ jobs' = Append(jobs, [path |-> path, submitted |-> f])
        /\ queue' = queue \cup {id}
        /\ worker' = Append(worker, IdleWorker)
        /\ hist' = Append(hist, NoHist)
        /\ result' = [i \in DOMAIN result \cup {id} |-> IF i = id THEN "STARTED" ELSE result[i]]

\* process_students_csv.delay(file_path): a new task id, its message in the
\* broker; the result backend is not written.
delay(path, f) ==
    LET id == Len(jobs) + 1
    IN  /\ jobs' = Append(jobs, [path |-> path, submitted |-> f])
        /\ queue' = queue \cup {id}
        /\ worker' = Append(worker, IdleWorker)
        /\ hist' = Append(hist, NoHist)
        /\ UNCHANGED result

\* Mutant of upload_students_csv: the upload is answered only once no task
\* waits or runs.
upload_students_csv_waits(name, f) ==
    /\ queue = {} /\ \A j \in JobIds : worker[j].pc \in {"idle", "done"}
    /\ Len(jobs) < MaxJobs
    /\ media' = [n \in DOMAIN media \cup {name} |-> IF n = name THEN f ELSE media[n]]
    /\ delay(name, f)
    /\ response' = [code |-> 202, task_id |-> Len(jobs) + 1, status |-> "PENDING",
                    error |-> ""]
    /\ UNCHANGED <<users, students, finished, crashes>>

\* upload_students_csv with a file named name holding f.
upload_students_csv(name, f) ==
    /\ Len(jobs) < MaxJobs
    /\ media' = [n \in DOMAIN media \cup {name} |-> IF n = name THEN f ELSE media[n]]
    /\ delay(name, f)
    /\ response' = [code |-> 202, task_id |-> Len(jobs) + 1, status |-> "PENDING",
                    error |-> ""]
    /\ UNCHANGED <<users, students, finished, crashes>>

\* Mutant of upload_students_csv_without_file: the file is checked after
\* the upload was saved and the task sent.
upload_students_csv_checks_late ==
    /\ Len(jobs) < MaxJobs
    /\ media' = [n \in DOMAIN media \cup {"a.csv"} |-> IF n = "a.csv" THEN <<>> ELSE media[n]]
    /\ delay("a.csv", <<>>)
    /\ response' = [code |-> 400, task_id |-> 0, status |-> "",
                    error |-> "CSV file is required."]
    /\ UNCHANGED <<users, students, finished, crashes>>

\* upload_students_csv without a file.
upload_students_csv_without_file ==
    /\ response' = [code |-> 400, task_id |-> 0, status |-> "",
                    error |-> "CSV file is required."]
    /\ UNCHANGED <<media, jobs, queue, result, worker, users, students,
                   hist, finished, crashes>>

\* Mutant of get_task_status: the status every task starts with is returned.
get_task_status_stale(task_id) == "PENDING"

\* get_task_status: AsyncResult(task_id).status, PENDING for an id the result
\* backend holds nothing about.
get_task_status(task_id) ==
    IF task_id \in DOMAIN result THEN result[task_id] ELSE "PENDING"

\* The JSON object get_task_status answers with.
get_task_status_data(task_id) ==
    [task_id |-> task_id, status |-> get_task_status(task_id)]


(*------------------------------- the worker ------------------------------*)
\* The task's run ends: the state the worker stores in the result backend
\* (SUCCESS when the function returns, FAILURE when it raises), and its
\* message is acknowledged.
Finish(j, state, reason) ==
    /\ result' = [i \in DOMAIN result \cup {j} |-> IF i = j THEN state ELSE result[i]]
    /\ worker' = [worker EXCEPT ![j].pc = "done"]
    /\ hist' = [hist EXCEPT ![j].reason = reason, ![j].end = <<users, students>>]
    /\ finished' = Append(finished, j)

\* The task is marked running when a worker takes it.
MarkStarted(j) ==
    result' = [i \in DOMAIN result \cup {j} |-> IF i = j THEN "STARTED" ELSE result[i]]

\* A worker takes the message of task j off the queue and calls
\* process_students_csv(file_path): the file is opened, nothing is read yet.
Dispatch(j) ==
    /\ j \in queue
    /\ queue' = queue \ {j}
    /\ MarkStarted(j)
    /\ worker' = [worker EXCEPT ![j] = [IdleWorker EXCEPT !.pc = "read"]]
    /\ hist' = [hist EXCEPT ![j].attempts = @ + 1]
    /\ UNCHANGED <<media, jobs, users, students, response, finished, crashes>>

\* "for row in reader": the next row, the end of the file (the function
\* returns), or the decode error of the buffer just read (the function raises).
ReadRow(j) ==
    /\ worker[j].pc = "read"
    /\ LET w == worker[j]
           r == NextRow(w.fieldnames, w.buf, w.pos, media[jobs[j].path])
       IN  CASE r.kind = "line" ->
                   /\ worker' = [worker EXCEPT ![j] =
                          [pc |-> "user", pos |-> r.pos, buf |-> r.buf,
                           fieldnames |-> r.fieldnames, line |-> r.line, user |-> 0]]
                   /\ hist' = [hist EXCEPT ![j].rows = Min(@ + 1, RowsCap)]
                   /\ UNCHANGED <<result, finished>>
             [] r.kind = "eof" -> Finish(j, "SUCCESS", "")
             [] OTHER -> Finish(j, "FAILURE", r.kind)
    /\ UNCHANGED <<media, jobs, queue, users, students, response, crashes>>

\* Mutant of UserGet: create() instead of get_or_create(), on a table that
\* accepts the row: the User is inserted without lookup.
UserGetBlindInsert(j) ==
    /\ worker[j].pc = "user"
    /\ users' = Append(users, UserRow(worker[j]))
    /\ worker' = [worker EXCEPT ![j].pc = "student", ![j].user = Len(users) + 1]
    /\ hist' = [hist EXCEPT ![j].created = @ + 1]
    /\ UNCHANGED <<media, jobs, queue, result, students, response, finished, crashes>>

\* User.objects.get_or_create, the lookup: get(username=reg_no).
UserGet(j) ==
    /\ worker[j].pc = "user"
    /\ LET m == UserMatches(users, RegNo(worker[j]))
       IN  CASE m = {} ->
                   /\ worker' = [worker EXCEPT ![j].pc = "userCreate"]
                   /\ UNCHANGED <<result, hist, finished>>
             [] Cardinality(m) = 1 ->
                   /\ worker' = [worker EXCEPT ![j].pc = "student",
                                               ![j].user = CHOOSE i \in m : TRUE]
                   /\ UNCHANGED <<result, hist, finished>>
             [] OTHER -> Finish(j, "FAILURE", "MultipleObjectsReturned")
    /\ UNCHANGED <<media, jobs, queue, users, students, response, crashes>>

\* Mutant of UserCreate: the Student of the row is left to be created later;
\* once the User is created the worker takes the next row.
UserCreateThenNextRow(j) ==
    /\ worker[j].pc = "userCreate"
    /\ users' = IF UserInsertOk(users, UserRow(worker[j]))
                THEN Append(users, UserRow(worker[j])) ELSE users
    /\ worker' = [worker EXCEPT ![j].pc = "read"]
    /\ UNCHANGED <<media, jobs, queue, result, students, response, hist, finished, crashes>>

\* User.objects.get_or_create after a miss: create(); on IntegrityError the
\* lookup is tried once more and the error raised when it misses again.
UserCreate(j) ==
    /\ worker[j].pc = "userCreate"
    /\ LET row == UserRow(worker[j])
           m == UserMatches(users, row.username)
       IN  IF UserInsertOk(users, row)
           THEN /\ users' = Append(users, row)
                /\ worker' = [worker EXCEPT ![j].pc = "student",
                                            ![j].user = Len(users) + 1]
                /\ hist' = [hist EXCEPT ![j].created = @ + 1]
                /\ UNCHANGED <<result, finished>>
           ELSE /\ UNCHANGED users
                /\ CASE Cardinality(m) = 1 ->
                          /\ worker' = [worker EXCEPT ![j].pc = "student",
                                                      ![j].user = CHOOSE i \in m : TRUE]
                          /\ UNCHANGED <<result, hist, finished>>
                     [] m = {} -> Finish(j, "FAILURE", "IntegrityError")
                     [] OTHER -> Finish(j, "FAILURE", "MultipleObjectsReturned")
    /\ UNCHANGED <<media, jobs, queue, students, response, crashes>>

\* Mutant of StudentGet: create() instead of get_or_create(), on a table
\* that accepts the row: the Student is inserted without lookup.
StudentGetBlindInsert(j) ==
    /\ worker[j].pc = "student"
    /\ students' = Append(students, StudentRow(worker[j]))
    /\ worker' = [worker EXCEPT ![j].pc = "read"]
    /\ UNCHANGED <<media, jobs, queue, result, users, response, hist, finished, crashes>>

\* Mutant of StudentGet: update_or_create() instead of get_or_create(): a
\* Student that is found takes the row's values.
StudentGetUpdate(j) ==
    /\ worker[j].pc = "student"
    /\ LET m == StudentMatches(students, RegNo(worker[j]))
       IN  IF m = {}
           THEN /\ worker' = [worker EXCEPT ![j].pc = "studentCreate"]
                /\ UNCHANGED students
           ELSE /\ worker' = [worker EXCEPT ![j].pc = "read"]
                /\ students' = [i \in 1..Len(students) |->
                       IF i \in m
                       THEN [StudentRow(worker[j]) EXCEPT !.created_at = students[i].created_at]
                       ELSE students[i]]
    /\ UNCHANGED <<media, jobs, queue, result, users, response, hist, finished, crashes>>

\* Mutant of StudentGet: the lookup of a Student that exists waits for a
\* row lock nobody releases.
StudentGetBlocks(j) ==
    /\ worker[j].pc = "student"
    /\ StudentMatches(students, RegNo(worker[j])) = {}
    /\ worker' = [worker EXCEPT ![j].pc = "studentCreate"]
    /\ UNCHANGED <<media, jobs, queue, result, users, students, response, hist,
                   finished, crashes>>

\* Student.objects.get_or_create, the lookup: get(reg_no=reg_no).
StudentGet(j) ==
    /\ worker[j].pc = "student"
    /\ LET m == StudentMatches(students, RegNo(worker[j]))
       IN  CASE m = {} ->
                   /\ worker' = [worker EXCEPT ![j].pc = "studentCreate"]
                   /\ UNCHANGED <<result, hist, finished>>
             [] Cardinality(m) = 1 ->
                   /\ worker' = [worker EXCEPT ![j].pc = "read"]
                   /\ UNCHANGED <<result, hist, finished>>
             [] OTHER -> Finish(j, "FAILURE", "MultipleObjectsReturned")
    /\ UNCHANGED <<media, jobs, queue, users, students, response, crashes>>

\* Student.objects.get_or_create after a miss: create(), with the same
\* handling of IntegrityError.
StudentCreate(j) ==
    /\ worker[j].pc = "studentCreate"
    /\ LET row == StudentRow(worker[j])
           m == StudentMatches(students, row.reg_no)
       IN  IF StudentInsertOk(students, row)
           THEN /\ students' = Append(students, row)
                /\ worker' = [worker EXCEPT ![j].pc = "read"]
                /\ hist' = [hist EXCEPT ![j].created = @ + 1]
                /\ UNCHANGED <<result, finished>>
           ELSE /\ UNCHANGED students
                /\ CASE Cardinality(m) = 1 ->
                          /\ worker' = [worker EXCEPT ![j].pc = "read"]
                          /\ UNCHANGED <<result, hist, finished>>
                     [] m = {} -> Finish(j, "FAILURE", "IntegrityError")
                     [] OTHER -> Finish(j, "FAILURE", "MultipleObjectsReturned")
    /\ UNCHANGED <<media, jobs, queue, users, response, crashes>>

\* The worker running task j dies; the broker delivers the unacknowledged
\* message again (at-least-once delivery).
Crash(j) ==
    /\ worker[j].pc \notin {"idle", "done"}
    /\ crashes < MaxCrashes
    /\ crashes' = crashes + 1
    /\ worker' = [worker EXCEPT ![j] = IdleWorker]
    /\ queue' = queue \cup {j}
    /\ UNCHANGED <<media, jobs, result, users, students, response, hist, finished>>

process_students_csv(j) ==
    \/ ReadRow(j)
    \/ UserGet(j)
    \/ UserCreate(j)
    \/ StudentGet(j)
    \/ StudentCreate(j)

Next ==
    \/ \E name \in FileNames, f \in FileSet : upload_students_csv(name, f)
    \/ upload_students_csv_without_file
    \/ \E j \in JobIds : Dispatch(j)
    \/ \E j \in JobIds : process_students_csv(j)

\* The pipeline as the code under src/ runs it: a message is delivered once.
Spec == Init /\ [][Next]_vars

\* The pipeline on a queue that delivers at least once: a worker may die in
\* the middle of a task, and the task is then run again from its first row.
CrashNext ==
    \/ Next
    \/ \E j \in JobIds : Crash(j)

CrashSpec == Init /\ [][CrashNext]_vars

\* Fair scheduling: a task whose message waits is eventually taken by a
\* worker, and a worker that can take its next step eventually takes it.
FairNext ==
    \/ \E name \in FileNames, f \in ShortFiles : upload_students_csv(name, f)
    \/ \E j \in JobIds : Dispatch(j)
    \/ \E j \in JobIds : process_students_csv(j)
    \/ \E j \in JobIds : Crash(j)

FairSpec ==
    /\ Init
    /\ [][FairNext]_vars
    /\ \A j \in 1..MaxJobs : WF_vars(j \in JobIds /\ (Dispatch(j) \/ process_students_csv(j)))


\* Tables as earlier runs of the task leave them: empty; after a run on
\* <<HDR, L1x>>; after a run on <<HDR, LS>> (which fails at the Student).
SeedStores ==
    LET w(line) == [IdleWorker EXCEPT !.fieldnames = HDR, !.line = line]
    IN  { <<<<>>, <<>>>>,
          << <<UserRow(w(L1x))>>,
             <<[user |-> 1, reg_no |-> RegNo(w(L1x)), first_name |-> FirstName(w(L1x)),
                last_name |-> LastName(w(L1x)), email |-> Email(w(L1x)),
                department |-> Department(w(L1x)), level |-> Level(w(L1x)),
                created_at |-> 1]>> >>,
          << <<UserRow(w(LS))>>, <<>> >> }

SerialInit ==
    /\ media = <<>>
    /\ jobs = <<>>
    /\ queue = {}
    /\ result = <<>>
    /\ worker = <<>>
    /\ \E st \in SeedStores : users = st[1] /\ students = st[2]
    /\ response = [code |-> 0, task_id |-> 0, status |-> "", error |-> ""]
    /\ hist = <<>>
    /\ finished = <<>>
    /\ crashes = 0

\* One worker, and one file uploaded again and again: the tasks run one
\* after the other, each on the same file.
SerialNext ==
    \/ \E name \in FileNames, f \in FileSet :
          /\ \A j \in JobIds : jobs[j].path = name /\ jobs[j].submitted = f
          /\ upload_students_csv(name, f)
    \/ \E j \in JobIds :
          /\ \A k \in JobIds : worker[k].pc \in {"idle", "done"}
          /\ Dispatch(j)
    \/ \E j \in JobIds : process_students_csv(j)

SerialSpec == SerialInit /\ [][SerialNext]_vars

(*---------------------- a task run from start to end ---------------------*)
\* process_students_csv(file_path) run by one worker with no other writer:
\* the rows are read and upserted one after the other from store st until the
\* file ends (SUCCESS) or a statement raises (FAILURE); the tables it leaves.
RECURSIVE RunRows(_, _, _)
RunRows(w, st, content) ==
    LET r == NextRow(w.fieldnames, w.buf, w.pos, content)
    IN  IF r.kind = "eof"
        THEN [state |-> "SUCCESS", reason |-> "", users |-> st.users, students |-> st.students]
        ELSE IF r.kind # "line"
        THEN [state |-> "FAILURE", reason |-> r.kind, users |-> st.users, students |-> st.students]
        ELSE
        LET w1 == [pc |-> "user", pos |-> r.pos, buf |-> r.buf,
                   fieldnames |-> r.fieldnames, line |-> r.line, user |-> 0]
            um == UserMatches(st.users, RegNo(w1))
            uins == um = {} /\ UserInsertOk(st.users, UserRow(w1))
            users1 == IF uins THEN Append(st.users, UserRow(w1)) ELSE st.users
            w2 == [w1 EXCEPT !.user = IF uins THEN Len(users1) ELSE CHOOSE i \in um : TRUE]
            sm == StudentMatches(st.students, RegNo(w2))
            srow == [StudentRow(w2) EXCEPT !.created_at = Len(users1) + Len(st.students)]
            sins == sm = {} /\ StudentInsertOk(st.students, srow)
            students1 == IF sins THEN Append(st.students, srow) ELSE st.students
        IN  IF Cardinality(um) > 1
            THEN [state |-> "FAILURE", reason |-> "MultipleObjectsReturned",
                  users |-> st.users, students |-> st.students]
            ELSE IF um = {} /\ ~uins
            THEN [state |-> "FAILURE", reason |-> "IntegrityError",
                  users |-> st.users, students |-> st.students]
            ELSE IF Cardinality(sm) > 1
            THEN [state |-> "FAILURE", reason |-> "MultipleObjectsReturned",
                  users |-> users1, students |-> st.students]
            ELSE IF sm = {} /\ ~sins
            THEN [state |-> "FAILURE", reason |-> "IntegrityError",
                  users |-> users1, students |-> st.students]
            ELSE RunRows(w2, [users |-> users1, students |-> students1], content)

\* The task run on file content from tables us and ss.
RunTask(us, ss, content) ==
    RunRows([IdleWorker EXCEPT !.pc = "read"], [users |-> us, students |-> ss], content)

\* The entities two tables hold, whatever the order of their INSERTs: the
\* Users by their fields, the Students by their fields and the username of
\* the User they are linked to (ids and created_at follow the order of the
\* INSERTs and are left out).
Entities(us, ss) ==
    [users |-> {us[i] : i \in 1..Len(us)},
     students |-> {[reg_no |-> ss[i].reg_no, first_name |-> ss[i].first_name,
                    last_name |-> ss[i].last_name, email |-> ss[i].email,
                    department |-> ss[i].department, level |-> ss[i].level,
                    user |-> IF ss[i].user \in 1..Len(us)
                             THEN us[ss[i].user].username ELSE None] :
                   i \in 1..Len(ss)}]

\* The files that hold the rows of content in another order: the first line
\* (the field names) stays, the lines after it are permuted.
RowOrders(content) ==
    IF Len(content) < 2 THEN {content}
    ELSE {[i \in 1..Len(content) |-> IF i = 1 THEN content[1] ELSE content[p[i - 1] + 1]] :
          p \in Permutations(1..(Len(content) - 1))}

(*----------------------- files of complete rows --------------------------*)
\* The pipeline on uploads whose rows are all complete, with blank and
\* non-blank keys; the workers of the tasks interleave.
KeysNext ==
    \/ \E name \in FileNames, f \in KeyFiles : upload_students_csv(name, f)
    \/ \E j \in JobIds : Dispatch(j)
    \/ \E j \in JobIds : process_students_csv(j)

KeysSpec == Init /\ [][KeysNext]_vars

(*------------------------- one task, redelivered ------------------------*)
\* One upload on tables earlier runs left, and a worker that may die in the
\* middle of the task; the task is then run again from its first row.
RedispatchNext ==
    \/ \E name \in FileNames, f \in FileSet :
          Len(jobs) = 0 /\ upload_students_csv(name, f)
    \/ \E j \in JobIds : Dispatch(j)
    \/ \E j \in JobIds : process_students_csv(j)
    \/ \E j \in JobIds : Crash(j)

RedispatchSpec == SerialInit /\ [][RedispatchNext]_vars

\* The tables as they stood before the only task j ran: the seed the rows
\* the runs of j created were appended to.
TablesBefore(j) ==
    CHOOSE st \in SeedStores :
        /\ Len(st[1]) + Len(st[2]) + hist[j].created = Len(users) + Len(students)
        /\ st[1] = SubSeq(users, 1, Len(st[1]))
        /\ st[2] = SubSeq(students, 1, Len(st[2]))

(*------------------------------- the claims ------------------------------*)
\* C1. Idempotence across jobs: when two tasks run one after the other on
\* the same file, the second run leaves the User and Student tables exactly
\* as the first run left them (same rows, same field values; nothing created).
C1_Idempotent ==
    \A a \in 1..Len(finished), b \in 1..Len(finished) :
        b = a + 1 /\ jobs[finished[a]].submitted = jobs[finished[b]].submitted
            => /\ hist[finished[b]].end = hist[finished[a]].end
               /\ hist[finished[b]].created = 0

\* C1 witness: the same file of two data rows has been run twice in a row
\* and the first run created entities.
C1_Witness ==
    \E a \in 1..Len(finished), b \in 1..Len(finished) :
        /\ b = a + 1
        /\ jobs[finished[a]].submitted = jobs[finished[b]].submitted
        /\ hist[finished[a]].created > 1
        /\ hist[finished[b]].rows > 1

\* C2. Uniqueness under concurrency: in every reachable state there is at
\* most one User per username and at most one Student per reg_no.
C2_Unique ==
    /\ \A i \in 1..Len(users), k \in 1..Len(users) :
           users[i].username = users[k].username => i = k
    /\ \A i \in 1..Len(students), k \in 1..Len(students) :
           students[i].reg_no = students[k].reg_no => i = k

\* C2 witness: two workers both missed the lookup of the same reg_no, one has
\* created the Student and the other is about to run its create().
C2_Witness ==
    \E a \in JobIds, b \in JobIds :
        /\ a # b
        /\ worker[a].pc = "studentCreate"
        /\ worker[b].pc = "read" /\ worker[b].line # <<>>
        /\ RegNo(worker[a]) = RegNo(worker[b])
        /\ \E i \in 1..Len(students) :
               students[i].reg_no = RegNo(worker[a]) /\ students[i].user = worker[b].user

\* C3. First write wins: no step changes a field of an existing User or
\* Student row, and no row is removed; rows are only added.
C3_FirstWriteWins ==
    [][/\ Len(users') >= Len(users)
       /\ Len(students') >= Len(students)
       /\ \A i \in 1..Len(users) : users'[i] = users[i]
       /\ \A i \in 1..Len(students) : students'[i] = students[i]]_vars

\* C3 witness: a worker's get_or_create found the Student of its row's
\* reg_no, and the row carries other values than the Student holds.
C3_Witness ==
    \E j \in JobIds :
        /\ worker[j].pc = "read" /\ worker[j].line # <<>>
        /\ \E i \in 1..Len(students) :
               /\ students[i].reg_no = RegNo(worker[j])
               /\ students[i].last_name # LastName(worker[j])
               /\ students[i].email # Email(worker[j])

\* C4 (as claimed). Partial failure containment: in a file with the expected
\* header, a row whose upsert fails (IntegrityError) never moves the task to
\* the failed state.
C4_RowFailureContained ==
    \A j \in JobIds :
        worker[j].fieldnames = HDR /\ hist[j].reason = "IntegrityError"
            => get_task_status(j) # "FAILURE"

\* C5 (as claimed). Job-to-file binding: until a task has finished, the file
\* at the path it was sent with holds the bytes of its upload.
C5_FileBound ==
    \A j \in JobIds :
        worker[j].pc # "done" => media[jobs[j].path] = jobs[j].submitted

C7_PendingBeforeDispatch ==
    \A j \in JobIds :
        hist[j].attempts = 0
            => /\ get_task_status(j) = "PENDING"
               /\ response.task_id = j => response.status = "PENDING"

\* C7 witness: a task waits in the queue while another task has ended.
C7_Witness ==
    \E j \in JobIds, k \in JobIds :
        /\ hist[j].attempts = 0 /\ j \in queue /\ response.task_id = j
        /\ get_task_status(k) \in Terminal

\* C8. Every task eventually terminates: under fair scheduling, every task
\* sent by an upload eventually has status SUCCESS or FAILURE.
C8_Terminates ==
    \A j \in 1..MaxJobs : (j \in JobIds) ~> (get_task_status(j) \in Terminal)

\* C8 witness: a task that processed a row and was redelivered has ended.
C8_Witness ==
    \E j \in JobIds :
        get_task_status(j) \in Terminal /\ hist[j].rows > 1 /\ hist[j].attempts > 1

\* C9. Submit never waits for or reports ingestion: an upload is possible
\* whatever the workers are doing; the step that sends a task answers 202
\* with the new task id and no error, processes no row of it and touches
\* no table.
C9_SubmitDoesNotWait ==
    /\ [](Len(jobs) < MaxJobs
            => ENABLED (\E name \in FileNames, f \in FileSet : upload_students_csv(name, f)))
    /\ [][Len(jobs') > Len(jobs)
            => /\ response' = [code |-> 202, task_id |-> Len(jobs'),
                               status |-> "PENDING", error |-> ""]
               /\ worker'[Len(jobs')].pc = "idle"
               /\ hist'[Len(jobs')].rows = 0
               /\ Len(jobs') \in queue'
               /\ users' = users /\ students' = students]_vars

\* C9 witness: an upload was answered while a worker was in the middle of a
\* row of another task.
C9_Witness ==
    /\ response.code = 202 /\ response.task_id = Len(jobs)
    /\ hist[Len(jobs)].attempts = 0
    /\ \E k \in JobIds : worker[k].pc \in {"userCreate", "studentCreate"}

\* C10 (as claimed). Fatal parse errors abort before any row: a task that
\* ended with the decode error has handed no row to the upserts.
C10_DecodeErrorBeforeRows ==
    \A j \in JobIds :
        hist[j].reason = "UnicodeDecodeError" => hist[j].rows = 0

\* C11 (as claimed). Unknown identifiers are rejected: the answer to a
\* status query for an id no upload returned is not a task state, so it
\* differs from the answer given for a task that waits in the queue.
C11_UnknownRejected ==
    \A id \in 1..(MaxJobs + 1) :
        id \notin JobIds
            => \A j \in JobIds :
                   j \in queue
                       => /\ get_task_status(id) \notin {"PENDING", "STARTED"} \cup Terminal
                          /\ get_task_status(id) # get_task_status(j)

\* C12 (as claimed). Order independence: a task that ran alone from the
\* empty tables on its file leaves the same Users and Students (same keys,
\* same field values) as a run from the empty tables on any permutation of
\* the file's rows, also when two rows share a reg_no and differ elsewhere.
C12_OrderIndependent ==
    \A j \in JobIds :
        /\ worker[j].pc = "done"
        /\ \A k \in JobIds \ {j} : hist[k].attempts = 0
        /\ media[jobs[j].path] = jobs[j].submitted
        => \A g \in RowOrders(jobs[j].submitted) :
               LET run == RunTask(<<>>, <<>>, g)
               IN  Entities(run.users, run.students)
                       = Entities(hist[j].end[1], hist[j].end[2])

\* C13 (as claimed). Batch report: for a task that has succeeded, the status
\* answer carries a report whose counters equal what the task did: rowsSeen
\* the rows it was handed, accountsCreated and profilesCreated the Users and
\* Students it created, accountsReused and profilesReused the rows whose
\* lookup found the entity, and no failed rows.
C13_BatchReport ==
    \A j \in JobIds :
        get_task_status(j) = "SUCCESS" /\ hist[j].attempts = 1 /\ hist[j].rows > 0
            => LET data == get_task_status_data(j)
               IN  /\ "report" \in DOMAIN data
                   /\ data.report.rowsSeen = hist[j].rows
                   /\ data.report.accountsCreated + data.report.profilesCreated
                          = hist[j].created
                   /\ data.report.accountsCreated + data.report.accountsReused
                          = hist[j].rows
                   /\ data.report.profilesCreated + data.report.profilesReused
                          = hist[j].rows
                   /\ data.report.failedRows = <<>>

\* C14. Safe redispatch: a task whose worker died (between two rows, or
\* between the User and the Student of one row) and that was run again from
\* its first row leaves the User and Student tables, with every field value
\* and every Student's user link, as one uninterrupted run of the same file
\* from the same tables leaves them.
C14_SafeRedispatch ==
    \A j \in JobIds :
        worker[j].pc = "done" /\ hist[j].attempts > 1
            => LET st == TablesBefore(j)
                   run == RunTask(st[1], st[2], jobs[j].submitted)
               IN  /\ users = run.users
                   /\ students = run.students

\* C14 witness: the worker died after it created the User of a row and
\* before the Student of that row; the second run of the task has read the
\* row again and is about to look the User up.
C14_Witness ==
    \E j \in JobIds :
        /\ hist[j].attempts = 2 /\ hist[j].created = 1
        /\ worker[j].pc = "user"
        /\ UserMatches(users, RegNo(worker[j])) # {}
        /\ StudentMatches(students, RegNo(worker[j])) = {}
        /\ TablesBefore(j)[1] = <<>>

\* C15. Sequential file order within a task: a worker is handed the rows of
\* its file one at a time, each from further down the file than the one
\* before; for every row the User upsert comes first, the Student upsert of
\* the same row follows it, and only after the Student upsert is the next
\* row read; a task that runs is in no queue, so no second worker is on it.
C15_SequentialRows ==
    /\ [](\A j \in JobIds : worker[j].pc # "idle" => j \notin queue)
    /\ [][\A j \in JobIds :
            LET w == worker[j]
                v == worker'[j]
            IN  v # w =>
                /\ LinesRead(v) # LinesRead(w) \/ v.line # w.line
                       => w.pc = "read" /\ LinesRead(v) > LinesRead(w)
                /\ v.pc = "user" => w.pc = "read"
                /\ v.pc = "userCreate" => w.pc = "user"
                /\ v.pc = "student" => w.pc \in {"user", "userCreate"}
                /\ v.pc = "studentCreate" => w.pc = "student"
                /\ v.pc = "read" => w.pc \in {"idle", "student", "studentCreate"}]_vars

\* C15 witness: a worker has created the Student of the first row of its
\* file and is at the User upsert of the second row, which has another key.
C15_Witness ==
    \E j \in JobIds :
        /\ worker[j].pc = "user" /\ hist[j].rows = 2 /\ LinesRead(worker[j]) = 3
        /\ hist[j].created = 2
        /\ Len(jobs[j].submitted) = 3
        /\ worker[j].line = jobs[j].submitted[3]
        /\ RegNo(worker[j]) # jobs[j].submitted[2][1]
        /\ StudentMatches(students, jobs[j].submitted[2][1]) # {}

\* C16 (as claimed). Absent optional columns default to empty: a row with a
\* key that lacks the department or level value, because the header has no
\* such column or because the line is shorter than the header, is upserted
\* with department and level equal to the empty string, and the task does
\* not end with the database's error at that row.
C16_AbsentDefaultsEmpty ==
    \A j \in JobIds :
        LET w == worker[j]
            absent(key) == RowGet(w.fieldnames, w.line, key, None) = None
        IN  /\ w.line # <<>> /\ RegNo(w) # None
            /\ absent("department") \/ absent("level")
            => /\ absent("department") => Department(w) = ""
               /\ absent("level") => Level(w) = ""
               /\ w.pc = "done" => hist[j].reason # "IntegrityError"

\* C17. Profile-to-Account link: in every reachable state every Student
\* either is linked to the User whose username equals its reg_no or is
\* linked to no User, and no two Students are linked to the same User.
C17_StudentUserLink ==
    /\ \A i \in 1..Len(students) :
           \/ students[i].user = 0
           \/ /\ students[i].user \in 1..Len(users)
              /\ users[students[i].user].username = students[i].reg_no
    /\ \A i \in 1..Len(students), k \in 1..Len(students) :
           students[i].user # 0 /\ students[i].user = students[k].user => i = k

\* C17 witness: two Students with different keys exist, the second linked
\* to a User that is not the one created last, and a worker that found the
\* User of its row is about to insert a Student that already exists.
C17_Witness ==
    /\ Len(students) = 2 /\ Len(users) = 2
    /\ students[2].user = 1
    /\ \E j \in JobIds :
           /\ worker[j].pc = "studentCreate"
           /\ worker[j].user \in 1..Len(users)
           /\ StudentMatches(students, RegNo(worker[j])) # {}

C19_NoFileNoChange ==
    [][response' # response /\ response'.code = 400
          => /\ response'.error = "CSV file is required."
             /\ response'.task_id = 0 /\ response'.status = ""
             /\ UNCHANGED <<media, jobs, queue, result, worker, users, students>>]_vars

\* C19 witness: an upload without a file was answered 400 after an upload
\* with a file, while a task waits in the queue and a worker is in the
\* middle of a row.
C19_Witness ==
    /\ response.code = 400
    /\ media # <<>> /\ queue # {}
    /\ \E k \in JobIds : worker[k].pc \in {"userCreate", "studentCreate"}

=============================================================================
